---- MODULE Spec2Model ----
(***************************************************************************)
(* Model of followcheck.py: the username validator, the recursive JSON     *)
(* extractor, file discovery, aggregation, the diff and the output writer. *)
(*                                                                         *)
(* Strings are sequences of one-character strings, so that the regular     *)
(* expression, lower(), substring tests, startswith and sorted() are       *)
(* computed character by character as Python computes them.               *)
(***************************************************************************)
EXTENDS Integers, Sequences, FiniteSets, TLC

VARIABLES
    s, matched, vpc,                      \* validator: input, result, position
    doc, usernames, epc,                  \* extractor: input, result, position
    tree, is_dir, fmt,                    \* the run's inputs: files, --data is a directory, --format
    out_dir_exists, out_files,            \* the output directory and the four possible output files
    pc, msg,                              \* main()'s position and the diagnostic it printed
    followers_matches, following_matches, \* find_json_files results, in rglob order
    followers_paths, following_paths,     \* the lists handed to load_usernames_from_files
    loaded, raised,                       \* files read by the aggregator, the file whose read raised
    followers, following,                 \* the two sets discover_followers_and_following returned
    not_following_back, you_dont_follow_back,
    run, prev_out                         \* which run this is, the output files the previous run left

vvars == <<s, matched, vpc>>
evars == <<doc, usernames, epc>>
mvars == <<tree, is_dir, fmt, out_dir_exists, out_files, pc, msg,
           followers_matches, following_matches, followers_paths, following_paths,
           loaded, raised, followers, following,
           not_following_back, you_dont_follow_back, run, prev_out>>
vars == <<vvars, evars, mvars>>

----------------------------------------------------------------------------
(* Characters and strings *)

Lowercase == <<"a","b","c","d","e","f","g","h","i","j","k","l","m",
               "n","o","p","q","r","s","t","u","v","w","x","y","z">>
Uppercase == <<"A","B","C","D","E","F","G","H","I","J","K","L","M",
               "N","O","P","Q","R","S","T","U","V","W","X","Y","Z">>
Digits == <<"0","1","2","3","4","5","6","7","8","9">>

\* The characters of the model in code-point order (what < on Python str compares).
CodePoints == <<"\n", " ", "!">> \o <<".", "/">> \o Digits \o Uppercase
              \o <<"_">> \o Lowercase

Range(seq) == {seq[i] : i \in 1..Len(seq)}

ord == [c \in Range(CodePoints) |->
          CHOOSE i \in 1..Len(CodePoints) : CodePoints[i] = c]

\* str.lower() on one character, then on a string.
lower_char == [c \in Range(CodePoints) |->
                 IF \E i \in 1..Len(Uppercase) : Uppercase[i] = c
                 THEN Lowercase[CHOOSE i \in 1..Len(Uppercase) : Uppercase[i] = c]
                 ELSE c]

lower(str) == [i \in 1..Len(str) |-> lower_char[str[i]]]

\* Python's  needle in hay  for strings.
contains(hay, needle) ==
    \E i \in 0..(Len(hay) - Len(needle)) :
        \A j \in 1..Len(needle) : hay[i + j] = needle[j]

startswith(str, prefix) ==
    /\ Len(prefix) <= Len(str)
    /\ \A j \in 1..Len(prefix) : str[j] = prefix[j]

endswith(str, suffix) ==
    /\ Len(suffix) <= Len(str)
    /\ \A j \in 1..Len(suffix) : str[Len(str) - Len(suffix) + j] = suffix[j]

\* a < b on Python strings: code-point lexicographic, a proper prefix first.
str_less(a, b) ==
    \E i \in 1..(Len(b)) :
        /\ i <= Len(a) + 1
        /\ \A j \in 1..(i - 1) : a[j] = b[j]
        /\ \/ i = Len(a) + 1
           \/ i <= Len(a) /\ ord[a[i]] < ord[b[i]]

----------------------------------------------------------------------------
(* Username validator: USERNAME_PATTERN = re.compile(r"^[a-zA-Z0-9_.]{1,30}$") *)

MinUsernameLen == 1
MaxUsernameLen == 30

\* The character class [a-zA-Z0-9_.].
UsernameChars == Range(Lowercase) \cup Range(Uppercase) \cup Range(Digits) \cup {"_", "."}

\* Python's $ without re.MULTILINE, after k characters were consumed: it matches
\* at the end of the string and also just before a newline that ends the string.
dollar_matches(str, k) ==
    \/ k = Len(str)
    \/ k = Len(str) - 1 /\ str[Len(str)] = "\n"

\* USERNAME_PATTERN.match(str) is not None: ^ anchors at position 0, the class is
\* repeated k times with 1 <= k <= 30, then $ must match.
USERNAME_PATTERN_match(str) ==
    \E k \in MinUsernameLen..MaxUsernameLen :
        /\ k <= Len(str)
        /\ \A i \in 1..k : str[i] \in UsernameChars
        /\ dollar_matches(str, k)

----------------------------------------------------------------------------
(* Inputs of the validator *)

MaxShort == 3       \* every string over ShortAlphabet up to this length
MaxOver == 2        \* long strings run up to MaxUsernameLen + MaxOver characters

ShortAlphabet == {"a", "_", " ", "\n"}

RECURSIVE StringsUpTo(_)
StringsUpTo(n) ==
    IF n = 0 THEN {<<>>}
    ELSE LET shorter == StringsUpTo(n - 1)
         IN  shorter \cup {Append(w, c) : w \in shorter, c \in ShortAlphabet}

repeat(c, n) == [i \in 1..n |-> c]

LongStrings ==
    {repeat(c, n) \o tail :
        c \in {"a", "Z", "."},
        n \in (MaxUsernameLen - 1)..(MaxUsernameLen + MaxOver),
        tail \in {<<>>, <<"\n">>, <<"\n", "\n">>, <<"!">>, <<"9">>}}

ValidatorInputs == StringsUpTo(MaxShort) \cup LongStrings

----------------------------------------------------------------------------
(* Parsed JSON values.  Every value is a record [t, str, kids]:              *)
(*   t = "obj"  a dict, kids its items (k the key, v the value), keys        *)
(*              distinct as json.load leaves them;                           *)
(*   t = "arr"  a list, kids its elements (k unused);                        *)
(*   t = "str"  a string, str its characters;                                *)
(*   t = "num"  any other scalar (number, true, false, null).                *)

JStr(x) == [t |-> "str", str |-> x, kids |-> <<>>]
JNum == [t |-> "num", str |-> <<>>, kids |-> <<>>]
JArr(items) == [t |-> "arr", str |-> <<>>,
                kids |-> [i \in 1..Len(items) |-> [k |-> "", v |-> items[i]]]]
JObj(items) == [t |-> "obj", str |-> <<>>, kids |-> items]

isinstance_dict(x) == x.t = "obj"
isinstance_list(x) == x.t = "arr"
isinstance_str(x) == x.t = "str"

has_key(obj, key) == \E i \in 1..Len(obj.kids) : obj.kids[i].k = key
\* obj[key] for a key the dict has.
item_of(obj, key) == obj.kids[CHOOSE i \in 1..Len(obj.kids) : obj.kids[i].k = key].v

\* Lines 29-33: the usernames one matched string_list_data list contributes.
\* item.get("value") is None when the key is absent, and None is not a str.
usernames_of_list(value) ==
    {item_of(value.kids[j].v, "value").str :
        j \in {i \in 1..Len(value.kids) :
                 /\ isinstance_dict(value.kids[i].v)
                 /\ has_key(value.kids[i].v, "value")
                 /\ isinstance_str(item_of(value.kids[i].v, "value"))
                 /\ USERNAME_PATTERN_match(item_of(value.kids[i].v, "value").str)}}

\* A faulty variant: the walk returns at the first string_list_data list it meets.
RECURSIVE extract_first_match_only(_)
extract_first_match_only(obj) ==
    IF isinstance_dict(obj)
    THEN IF \E i \in 1..Len(obj.kids) :
                obj.kids[i].k = "string_list_data" /\ isinstance_list(obj.kids[i].v)
         THEN usernames_of_list(item_of(obj, "string_list_data"))
         ELSE UNION {extract_first_match_only(obj.kids[i].v) : i \in 1..Len(obj.kids)}
    ELSE IF isinstance_list(obj)
    THEN UNION {extract_first_match_only(obj.kids[i].v) : i \in 1..Len(obj.kids)}
    ELSE {}

\* extract_usernames_from_json(obj), lines 18-40.
RECURSIVE extract_usernames_from_json(_)
extract_usernames_from_json(obj) ==
    IF isinstance_dict(obj)
    THEN UNION {IF obj.kids[i].k = "string_list_data" /\ isinstance_list(obj.kids[i].v)
                THEN usernames_of_list(obj.kids[i].v)
                ELSE extract_usernames_from_json(obj.kids[i].v) :
                    i \in 1..Len(obj.kids)}
    ELSE IF isinstance_list(obj)
    THEN UNION {extract_usernames_from_json(obj.kids[i].v) : i \in 1..Len(obj.kids)}
    ELSE {}

----------------------------------------------------------------------------
(* Inputs of the extractor: documents grown from a leaf by nesting it *)

MaxDepth == 5

Entry(name) == JObj(<<[k |-> "value", v |-> JStr(name)]>>)

Leaves == {JStr(<<"a">>), JStr(<<"a", "!">>), JStr(<<"a", "\n">>), JNum}

Wrap(d) ==
    { JObj(<<[k |-> "string_list_data", v |-> d]>>),
      JObj(<<[k |-> "value", v |-> d]>>),
      JArr(<<d>>),
      JArr(<<Entry(<<"b">>), d>>),
      JObj(<<[k |-> "value", v |-> JStr(<<"b">>)], [k |-> "x", v |-> d]>>),
      JObj(<<[k |-> "x", v |-> d],
             [k |-> "string_list_data", v |-> JArr(<<Entry(<<"c">>)>>)]>>) }

\* Nesting depth of a value.
RECURSIVE depth_of(_)
depth_of(d) ==
    IF Len(d.kids) = 0 THEN 0
    ELSE 1 + (CHOOSE m \in {depth_of(d.kids[i].v) : i \in 1..Len(d.kids)} :
                 \A i \in 1..Len(d.kids) : depth_of(d.kids[i].v) <= m)

----------------------------------------------------------------------------
(* The data directory: which files it holds and what each holds *)

MaxFiles == 2       \* a tree holds at most this many files

\* Candidate files of a tree, as absolute POSIX paths under the data directory /d.
PathNames ==
   << <<"/","d","/","f","o","l","l","o","w","e","r","s","_","a","n","d","_","f","o","l","l","o","w","i","n","g","/","f","o","l","l","o","w","e","r","s","_","1",".","j","s","o","n">>,
      <<"/","d","/","f","o","l","l","o","w","e","r","s","_","a","n","d","_","f","o","l","l","o","w","i","n","g","/","f","o","l","l","o","w","i","n","g",".","j","s","o","n">>,
      <<"/","d","/","f","o","l","l","o","w","e","r","s","_","a","n","d","_","f","o","l","l","o","w","i","n","g","/","p","e","n","d","i","n","g",".","j","s","o","n">>,
      <<"/","d","/","o","l","d","/","f","o","l","l","o","w","e","r","s",".","j","s","o","n">>,
      <<"/","d","/","f","o","l","l","o","w","e","r","s","_","b","a","k","/","F","o","l","l","o","w","i","n","g",".","j","s","o","n">>,
      <<"/","d","/","f","o","l","l","o","w","i","n","g","_","b","a","k","/","F","o","l","l","o","w","e","r","s","_","x",".","j","s","o","n">>,
      <<"/","d","/","o","l","d","/","f","o","l","l","o","w","e","r","s",".","t","x","t">> >>

PathIds == 1..Len(PathNames)

as_posix(p) == PathNames[p]

\* Path.name: what follows the last "/".
name_of(p) ==
    LET str == as_posix(p)
        cut == CHOOSE i \in 0..Len(str) :
                  /\ i = 0 \/ str[i] = "/"
                  /\ \A j \in (i + 1)..Len(str) : str[j] # "/"
    IN  SubSeq(str, cut + 1, Len(str))

\* What a file holds: a JSON document, or what makes reading it fail.
\*   unreadable  open() raises OSError        not_json  json.load raises JSONDecodeError
\*   not_utf8    the utf-8 decoding of the bytes raises UnicodeDecodeError
ContentIds == {"unreadable", "not_json", "not_utf8", "no_names", "names_1", "names_2"}

\* The parsed document of a file that parses.
parsed == [c \in {"no_names", "names_1", "names_2"} |->
    CASE c = "no_names" -> JArr(<<>>)
      [] c = "names_1" ->
            JArr(<< JObj(<<[k |-> "title", v |-> JStr(<<>>)],
                           [k |-> "string_list_data",
                            v |-> JArr(<<JObj(<<[k |-> "href", v |-> JStr(<<"B">>)],
                                                [k |-> "value", v |-> JStr(<<"B">>)],
                                                [k |-> "timestamp", v |-> JNum]>>)>>)]>>),
                    JObj(<<[k |-> "string_list_data",
                            v |-> JArr(<<Entry(<<"a">>), Entry(<<"a", " ", "b">>)>>)]>>) >>)
      [] c = "names_2" ->
            JObj(<<[k |-> "relationships_following",
                    v |-> JArr(<< JObj(<<[k |-> "string_list_data",
                                          v |-> JArr(<<Entry(<<"a", "b">>)>>)]>>),
                                  JObj(<<[k |-> "string_list_data",
                                          v |-> JArr(<<Entry(<<"_", "c">>)>>)]>>) >>)]>>)]

\* Line 72 on each document a file can hold.
extracted == [c \in DOMAIN parsed |-> extract_usernames_from_json(parsed[c])]

Trees == UNION {[P -> ContentIds] : P \in {Q \in SUBSET PathIds : Cardinality(Q) <= MaxFiles}}

\* Every order in which a directory walk can yield the files of S.
Orders(S) == {f \in [1..Cardinality(S) -> S] : \A x \in S : \E i \in DOMAIN f : f[i] = x}

----------------------------------------------------------------------------
(* File locator *)

\* data_dir.rglob("*.json"): the files whose name ends in .json.
rglob_json(files) == {p \in files : endswith(name_of(p), <<".","j","s","o","n">>)}

kw_followers == <<"f","o","l","l","o","w","e","r","s">>
kw_following == <<"f","o","l","l","o","w","i","n","g">>
kw_boost == <<"f","o","l","l","o","w","e","r","s","_","a","n","d","_","f","o","l","l","o","w","i","n","g">>
following_json == <<"f","o","l","l","o","w","i","n","g",".","j","s","o","n">>

BaseScore == 1
Boost == 10

\* Lines 51-56 for one path: rel_str, the keyword test, the score.
rel_str == [p \in PathIds |-> lower(as_posix(p))]
has_keyword == [p \in PathIds |-> [kw \in {kw_followers, kw_following} |-> contains(rel_str[p], kw)]]
score_of == [p \in PathIds |->
               IF contains(rel_str[p], kw_boost) THEN BaseScore + Boost ELSE BaseScore]

\* find_json_files(data_dir, keyword), with the walk yielding the files as `order`.
find_json_files(order, keyword) ==
    LET kept == SelectSeq(order, LAMBDA p : has_keyword[p][keyword])
    IN  [i \in 1..Len(kept) |-> <<kept[i], score_of[kept[i]]>>]

----------------------------------------------------------------------------
(* Discovery *)

sort_key(m) == -m[2]

\* list.sort(key=sort_key): stable, ascending in the key.
RECURSIVE sort_by_key(_)
sort_by_key(matches) ==
    IF Len(matches) = 0 THEN <<>>
    ELSE LET rest == sort_by_key(SubSeq(matches, 1, Len(matches) - 1))
             last == matches[Len(matches)]
             at == Cardinality({i \in 1..Len(rest) : sort_key(rest[i]) <= sort_key(last)})
         IN  SubSeq(rest, 1, at) \o <<last>> \o SubSeq(rest, at + 1, Len(rest))

name_lower == [p \in PathIds |-> lower(name_of(p))]

paths_of(matches) == [i \in 1..Len(matches) |-> matches[i][1]]

\* A faulty variant: the name is compared without lower().
select_followers_paths_cased(matches) ==
    paths_of(SelectSeq(matches, LAMBDA m : name_of(m[1]) # following_json))

\* Line 96.
select_followers_paths(matches) ==
    paths_of(SelectSeq(matches, LAMBDA m : name_lower[m[1]] # following_json))

\* Lines 97-100.
select_following_paths(matches) ==
    paths_of(SelectSeq(matches, LAMBDA m : ~startswith(name_lower[m[1]], kw_followers)))

----------------------------------------------------------------------------
(* Aggregator *)

\* What open() + json.load() raise on a file, "" when the file parses.
exception_of(c) ==
    CASE c = "unreadable" -> "OSError"
      [] c = "not_json" -> "JSONDecodeError"
      [] c = "not_utf8" -> "UnicodeDecodeError"
      [] OTHER -> ""

\* Line 68: except (json.JSONDecodeError, OSError).
Caught == {"JSONDecodeError", "OSError"}

\* The loop of lines 64-75 from position i on.  acc.usernames is all_usernames,
\* acc.ok the files that parsed, acc.raised the file whose exception left the loop.
RECURSIVE load_from(_, _, _, _)
load_from(files, paths, i, acc) ==
    IF i > Len(paths) THEN acc
    ELSE LET c == files[paths[i]]
         IN  IF exception_of(c) \in Caught
             THEN load_from(files, paths, i + 1, acc)
             ELSE IF exception_of(c) # ""
             THEN [acc EXCEPT !.raised = {paths[i]}]
             ELSE load_from(files, paths, i + 1,
                     [acc EXCEPT !.usernames = @ \cup extracted[c],
                                 !.ok = @ \cup {paths[i]}])

\* load_usernames_from_files(paths, verbose), lines 61-76.
load_usernames_from_files(files, paths) ==
    load_from(files, paths, 1, [usernames |-> {}, ok |-> {}, raised |-> {}])

----------------------------------------------------------------------------
(* discover_followers_and_following, lines 79-110.  order1 and order2 are the *)
(* orders in which the two directory walks yield the files.                   *)

NothingLoaded == [followers |-> {}, following |-> {}]

\* A faulty variant: only the best-scored candidates of a role are loaded.
best_scored_only(matches) ==
    SelectSeq(sort_by_key(matches),
              LAMBDA m : \A i \in 1..Len(matches) : matches[i][2] <= m[2])

\* Lines 91-92: the list as the in-place sort leaves it.
sorted_matches(matches) == sort_by_key(matches)

discover_followers_and_following(files, order1, order2) ==
    LET fm == find_json_files(order1, kw_followers)
        gm == find_json_files(order2, kw_following)
        fp == select_followers_paths(sorted_matches(fm))
        gp == select_following_paths(sorted_matches(gm))
        found == [followers_matches |-> fm, following_matches |-> gm,
                  followers_paths |-> fp, following_paths |-> gp,
                  followers |-> {}, following |-> {},
                  loaded |-> NothingLoaded, raised |-> {}]
    IN  IF Len(fp) = 0 \/ Len(gp) = 0
        THEN found
        ELSE LET f == load_usernames_from_files(files, fp)
             IN  IF f.raised # {}
                 THEN [found EXCEPT !.loaded.followers = f.ok, !.raised = f.raised]
                 ELSE LET g == load_usernames_from_files(files, gp)
                      IN  [found EXCEPT !.followers = IF g.raised = {} THEN f.usernames ELSE {},
                                        !.following = IF g.raised = {} THEN g.usernames ELSE {},
                                        !.loaded = [followers |-> f.ok, following |-> g.ok],
                                        !.raised = g.raised]

----------------------------------------------------------------------------
(* Diff and output *)

\* sorted(names): ascending by < on str.
RECURSIVE sorted(_)
sorted(names) ==
    IF names = {} THEN <<>>
    ELSE LET least == CHOOSE x \in names : \A y \in names \ {x} : str_less(x, y)
         IN  <<least>> \o sorted(names \ {least})

\* "\n".join(list)
RECURSIVE join_lines(_)
join_lines(list) ==
    IF Len(list) = 0 THEN <<>>
    ELSE IF Len(list) = 1 THEN list[1]
    ELSE list[1] \o <<"\n">> \o join_lines(Tail(list))

\* for u in list: f.write(f"{u}\n")
RECURSIVE write_each(_)
write_each(list) ==
    IF Len(list) = 0 THEN <<>>
    ELSE list[1] \o <<"\n">> \o write_each(Tail(list))

csv_header == <<"u","s","e","r","n","a","m","e","\n">>

OutNames == {"not_following_back.txt", "you_dont_follow_back.txt",
             "not_following_back.csv", "you_dont_follow_back.csv"}

path1_of(format) == IF format = "csv" THEN "not_following_back.csv" ELSE "not_following_back.txt"
path2_of(format) == IF format = "csv" THEN "you_dont_follow_back.csv" ELSE "you_dont_follow_back.txt"

\* What open(path, "w") followed by the writes leaves in one file.
file_text(list, format) ==
    IF format = "csv"
    THEN csv_header \o write_each(list)
    ELSE join_lines(list) \o (IF Len(list) > 0 THEN <<"\n">> ELSE <<>>)

Absent == [exists |-> FALSE, data |-> <<>>]
File(data) == [exists |-> TRUE, data |-> data]
Stale == File(<<"o", "l", "d", "\n">>)

\* A faulty variant: the files are opened for appending.
write_output_append(files, nfb, ydfb, format) ==
    [files EXCEPT ![path1_of(format)] = File(@.data \o file_text(nfb, format)),
                  ![path2_of(format)] = File(@.data \o file_text(ydfb, format))]

\* write_output, lines 113-143: the output directory's files afterwards.
write_output(files, nfb, ydfb, format) ==
    [files EXCEPT ![path1_of(format)] = File(file_text(nfb, format)),
                  ![path2_of(format)] = File(file_text(ydfb, format))]

----------------------------------------------------------------------------
(* main(), lines 146-247 *)

Messages == {"", "not_a_directory", "neither", "no_followers", "no_following", "results"}

ValidatorIdle == s = <<>> /\ matched = FALSE /\ vpc = "idle"
ExtractorIdle == doc = JNum /\ usernames = {} /\ epc = "idle"

Fresh ==
    /\ pc = "start"
    /\ msg = ""
    /\ followers_matches = <<>>
    /\ following_matches = <<>>
    /\ followers_paths = <<>>
    /\ following_paths = <<>>
    /\ loaded = NothingLoaded
    /\ raised = {}
    /\ followers = {}
    /\ following = {}
    /\ not_following_back = <<>>
    /\ you_dont_follow_back = <<>>

MainInit ==
    /\ ValidatorIdle /\ ExtractorIdle
    /\ is_dir \in BOOLEAN
    /\ tree \in Trees
    /\ ~is_dir => tree = <<>>
    /\ fmt \in {"txt", "csv"}
    /\ out_dir_exists \in BOOLEAN
    /\ out_files = [n \in OutNames |-> IF out_dir_exists THEN Stale ELSE Absent]
    /\ Fresh
    /\ run = "first"
    /\ prev_out = out_files

\* A faulty variant: out_dir.mkdir runs before the --data check.
CheckDataDir_mkdir_first ==
    /\ pc = "start"
    /\ out_dir_exists' = TRUE
    /\ IF ~is_dir
       THEN msg' = "not_a_directory" /\ pc' = "done"
       ELSE pc' = "discover" /\ UNCHANGED msg
    /\ UNCHANGED <<vvars, evars, tree, is_dir, fmt, out_files,
                   followers_matches, following_matches, followers_paths, following_paths,
                   loaded, raised, followers, following,
                   not_following_back, you_dont_follow_back, run, prev_out>>

\* Lines 178-183: the --data check, then out_dir.mkdir(parents=True, exist_ok=True).
CheckDataDir ==
    /\ pc = "start"
    /\ IF ~is_dir
       THEN /\ msg' = "not_a_directory"
            /\ pc' = "done"
            /\ UNCHANGED out_dir_exists
       ELSE /\ out_dir_exists' = TRUE
            /\ pc' = "discover"
            /\ UNCHANGED msg
    /\ UNCHANGED <<vvars, evars, tree, is_dir, fmt, out_files,
                   followers_matches, following_matches, followers_paths, following_paths,
                   loaded, raised, followers, following,
                   not_following_back, you_dont_follow_back, run, prev_out>>

\* Line 189: the call of discover_followers_and_following.  An exception that
\* load_usernames_from_files does not catch leaves main() with a traceback.
Discover ==
    /\ pc = "discover"
    /\ \E order1 \in Orders(rglob_json(DOMAIN tree)), order2 \in Orders(rglob_json(DOMAIN tree)) :
         \E d \in {discover_followers_and_following(tree, order1, order2)} :
             /\ followers_matches' = d.followers_matches
             /\ following_matches' = d.following_matches
             /\ followers_paths' = d.followers_paths
             /\ following_paths' = d.following_paths
             /\ loaded' = d.loaded
             /\ raised' = d.raised
             /\ followers' = d.followers
             /\ following' = d.following
             /\ pc' = IF d.raised # {} THEN "crashed" ELSE "discovered"
    /\ UNCHANGED <<vvars, evars, tree, is_dir, fmt, out_dir_exists, out_files, msg,
                   not_following_back, you_dont_follow_back, run, prev_out>>

Report(m) ==
    /\ msg' = m
    /\ pc' = "done"
    /\ UNCHANGED <<vvars, evars, tree, is_dir, fmt, out_dir_exists, out_files,
                   followers_matches, following_matches, followers_paths, following_paths,
                   loaded, raised, followers, following,
                   not_following_back, you_dont_follow_back, run, prev_out>>

\* Lines 191-203.
ReportNeither ==
    /\ pc = "discovered"
    /\ followers = {} /\ following = {}
    /\ Report("neither")

\* Lines 205-209.
ReportNoFollowers ==
    /\ pc = "discovered"
    /\ ~(followers = {} /\ following = {})
    /\ followers = {}
    /\ Report("no_followers")

\* Lines 211-215.
ReportNoFollowing ==
    /\ pc = "discovered"
    /\ ~(followers = {} /\ following = {})
    /\ followers # {}
    /\ following = {}
    /\ Report("no_following")

\* A faulty variant: the two differences exchanged.
diff_swapped(fers, fing) == sorted(fers \ fing)

\* Line 218.
diff_not_following_back(fers, fing) == sorted(fing \ fers)
\* Line 220.
diff_you_dont_follow_back(fers, fing) == sorted(fers \ fing)

\* A faulty variant: main() without the two single-role checks of lines 205-215.
DiffAndWrite_unchecked ==
    /\ pc = "discovered"
    /\ ~(followers = {} /\ following = {})
    /\ not_following_back' = diff_not_following_back(followers, following)
    /\ you_dont_follow_back' = diff_you_dont_follow_back(followers, following)
    /\ out_files' = write_output(out_files, not_following_back', you_dont_follow_back', fmt)
    /\ msg' = "results"
    /\ pc' = "done"
    /\ UNCHANGED <<vvars, evars, tree, is_dir, fmt, out_dir_exists,
                   followers_matches, following_matches, followers_paths, following_paths,
                   loaded, raised, followers, following, run, prev_out>>

\* Lines 217-233: the diff, write_output and the summary.
DiffAndWrite ==
    /\ pc = "discovered"
    /\ followers # {} /\ following # {}
    /\ not_following_back' = diff_not_following_back(followers, following)
    /\ you_dont_follow_back' = diff_you_dont_follow_back(followers, following)
    /\ out_files' = write_output(out_files, not_following_back', you_dont_follow_back', fmt)
    /\ msg' = "results"
    /\ pc' = "done"
    /\ UNCHANGED <<vvars, evars, tree, is_dir, fmt, out_dir_exists,
                   followers_matches, following_matches, followers_paths, following_paths,
                   loaded, raised, followers, following, run, prev_out>>

\* The program is run once more on the same data with the same arguments.
Rerun ==
    /\ pc \in {"done", "crashed"}
    /\ run = "first"
    /\ run' = "second"
    /\ prev_out' = out_files
    /\ pc' = "start"
    /\ msg' = ""
    /\ followers_matches' = <<>>
    /\ following_matches' = <<>>
    /\ followers_paths' = <<>>
    /\ following_paths' = <<>>
    /\ loaded' = NothingLoaded
    /\ raised' = {}
    /\ followers' = {}
    /\ following' = {}
    /\ not_following_back' = <<>>
    /\ you_dont_follow_back' = <<>>
    /\ UNCHANGED <<vvars, evars, tree, is_dir, fmt, out_dir_exists, out_files>>

Next ==
    \/ CheckDataDir
    \/ Discover
    \/ ReportNeither
    \/ ReportNoFollowers
    \/ ReportNoFollowing
    \/ DiffAndWrite
    \/ Rerun

Spec == MainInit /\ [][Next]_vars

----------------------------------------------------------------------------
(* The validator applied to one candidate string *)

MainIdle ==
    /\ tree = <<>> /\ is_dir = FALSE /\ fmt = "txt"
    /\ out_dir_exists = FALSE /\ out_files = [n \in OutNames |-> Absent]
    /\ Fresh
    /\ run = "first" /\ prev_out = out_files

ValidatorInit ==
    /\ s \in ValidatorInputs
    /\ matched = FALSE
    /\ vpc = "input"
    /\ ExtractorIdle /\ MainIdle

\* Line 32: isinstance(val, str) and USERNAME_PATTERN.match(val).
Validate ==
    /\ vpc = "input"
    /\ matched' = USERNAME_PATTERN_match(s)
    /\ vpc' = "done"
    /\ UNCHANGED <<s, evars, mvars>>

ValidatorNext == Validate

SpecValidator == ValidatorInit /\ [][ValidatorNext]_vars

----------------------------------------------------------------------------
(* The extractor applied to one parsed document *)

ExtractorInit ==
    /\ doc \in Leaves
    /\ usernames = {}
    /\ epc = "input"
    /\ ValidatorIdle /\ MainIdle

\* The document handed to the extractor is any nesting of the leaves.
NestDocument ==
    /\ epc = "input"
    /\ depth_of(doc) < MaxDepth
    /\ doc' \in Wrap(doc)
    /\ UNCHANGED <<usernames, epc, vvars, mvars>>

\* Line 72: usernames = extract_usernames_from_json(data).
Extract ==
    /\ epc = "input"
    /\ usernames' = extract_usernames_from_json(doc)
    /\ epc' = "done"
    /\ UNCHANGED <<doc, vvars, mvars>>

ExtractorNext ==
    \/ NestDocument
    \/ Extract

SpecExtractor == ExtractorInit /\ [][ExtractorNext]_vars

----------------------------------------------------------------------------
(* Definitions the properties are stated with.  They restate what the claims *)
(* say in terms of sets, and use none of the operations above except the     *)
(* validator and the extractor where a claim takes them as given.            *)

\* a before b in ascending lexicographic order of the raw characters.
RECURSIVE LexBefore(_, _)
LexBefore(a, b) ==
    IF Len(b) = 0 THEN FALSE
    ELSE IF Len(a) = 0 THEN TRUE
    ELSE IF Head(a) # Head(b) THEN ord[Head(a)] < ord[Head(b)]
    ELSE LexBefore(Tail(a), Tail(b))

Ascending(list) == \A i, j \in 1..Len(list) : i < j => LexBefore(list[i], list[j])

WellFormed(str) ==
    /\ 1 <= Len(str) /\ Len(str) <= 30
    /\ \A i \in 1..Len(str) : str[i] \in UsernameChars

ChildrenOf(n) == {n.kids[i].v : i \in 1..Len(n.kids)}

\* The string_list_data lists of an object: the values the rule iterates.
MatchedListsOf(n) ==
    IF n.t = "obj"
    THEN {n.kids[i].v : i \in {j \in 1..Len(n.kids) :
                                  n.kids[j].k = "string_list_data" /\ n.kids[j].v.t = "arr"}}
    ELSE {}

\* The children of n that are not iterated by the rule at n.
UnmatchedChildrenOf(n) ==
    {n.kids[i].v : i \in {j \in 1..Len(n.kids) :
                            ~(n.t = "obj" /\ n.kids[j].k = "string_list_data"
                                          /\ n.kids[j].v.t = "arr")}}

\* What the rule yields at one object: the valid string values of the objects
\* in its string_list_data lists.
ValueStringsOf(e) ==
    IF e.t = "obj"
    THEN {e.kids[i].v.str : i \in {j \in 1..Len(e.kids) :
                                     e.kids[j].k = "value" /\ e.kids[j].v.t = "str"}}
    ELSE {}

RuleAt(n) ==
    {u \in UNION {ValueStringsOf(e) : e \in UNION {ChildrenOf(l) : l \in MatchedListsOf(n)}} :
        USERNAME_PATTERN_match(u)}

\* Every value of the document, and the values the walk visits.
RECURSIVE WithDescendants(_)
WithDescendants(values) ==
    LET more == values \cup UNION {ChildrenOf(n) : n \in values}
    IN  IF more = values THEN values ELSE WithDescendants(more)

RECURSIVE WithWalked(_)
WithWalked(values) ==
    LET more == values \cup UNION {UnmatchedChildrenOf(n) : n \in values}
    IN  IF more = values THEN values ELSE WithWalked(more)

EveryValueOf(d) == WithDescendants({d})
WalkedValuesOf(d) == WithWalked({d})

\* The files of a role by the claims' words, as a set: a .json file whose
\* lower-cased path holds the keyword, the name-excluded ones left out.
LowerPath == [p \in PathIds |-> [i \in 1..Len(as_posix(p)) |-> lower_char[as_posix(p)[i]]]]
JsonFiles == {p \in PathIds :
                /\ Len(as_posix(p)) >= 5
                /\ SubSeq(as_posix(p), Len(as_posix(p)) - 4, Len(as_posix(p))) = <<".","j","s","o","n">>}
KeywordFiles == [kw \in {kw_followers, kw_following} |->
                    {p \in JsonFiles : contains(LowerPath[p], kw)}]
CandidatesOf(kw) == KeywordFiles[kw] \cap DOMAIN tree

LastSlash(p) == CHOOSE i \in 1..Len(as_posix(p)) :
                    /\ as_posix(p)[i] = "/"
                    /\ \A j \in (i + 1)..Len(as_posix(p)) : as_posix(p)[j] # "/"
BaseNameLower(p) == SubSeq(LowerPath[p], LastSlash(p) + 1, Len(as_posix(p)))
NamedFollowingJson == {p \in PathIds : BaseNameLower(p) = following_json}
NameStartsWithFollowers ==
    {p \in PathIds : /\ Len(BaseNameLower(p)) >= Len(kw_followers)
                     /\ SubSeq(BaseNameLower(p), 1, Len(kw_followers)) = kw_followers}
FollowersFiles == CandidatesOf(kw_followers) \ NamedFollowingJson
FollowingFiles == CandidatesOf(kw_following) \ NameStartsWithFollowers

NamesIn == [c \in DOMAIN parsed |-> extract_usernames_from_json(parsed[c])]
Parses(p) == tree[p] \in DOMAIN parsed
YieldOf(files) == UNION {NamesIn[tree[p]] : p \in {q \in files : Parses(q)}}

Ended == pc \in {"done", "crashed"}
Discovered == pc \in {"discovered", "done", "crashed"} /\ is_dir

----------------------------------------------------------------------------
(* C1 *)

\* C1: every diff that is computed lists exactly following \ followers and
\* followers \ following, each ascending in lexicographic order without
\* duplicates; both are empty for equal sets and whole for disjoint sets.
C1_DiffIsSortedDifference ==
    msg = "results" =>
        /\ Range(not_following_back) = {u \in following : u \notin followers}
        /\ Range(you_dont_follow_back) = {u \in followers : u \notin following}
        /\ Ascending(not_following_back)
        /\ Ascending(you_dont_follow_back)
        /\ followers = following =>
              not_following_back = <<>> /\ you_dont_follow_back = <<>>
        /\ followers \cap following = {} =>
              /\ Len(not_following_back) = Cardinality(following)
              /\ Len(you_dont_follow_back) = Cardinality(followers)

C1_Witness ==
    /\ msg = "results"
    /\ Len(not_following_back) = 2
    /\ Len(you_dont_follow_back) = 2

----------------------------------------------------------------------------
(* C2 *)

\* C2: the validator accepts a string exactly when it has 1 to 30 characters,
\* all of them in [A-Za-z0-9_.].
C2_AcceptsExactlyWellFormed ==
    vpc = "done" => (matched <=> WellFormed(s))

----------------------------------------------------------------------------
(* C3 *)

\* C3 as stated: the result is what the rule yields at every object of the
\* document, also at objects below a matched string_list_data list.
C3_RuleAtEveryObject ==
    epc = "done" => usernames = UNION {RuleAt(n) : n \in EveryValueOf(doc)}

\* C3 amended: the result is what the rule yields at the objects the walk
\* visits: the document, and every value of a visited object or list except a
\* matched string_list_data list, whose elements are tested and not entered.
C3_RuleAtWalkedObjects ==
    epc = "done" => usernames = UNION {RuleAt(n) : n \in WalkedValuesOf(doc)}

C3_Witness ==
    /\ epc = "done"
    /\ usernames # {}
    /\ usernames # UNION {RuleAt(n) : n \in EveryValueOf(doc)}

----------------------------------------------------------------------------
(* C4 *)

\* C4: loading never aborts, and what it returns is the union of what the
\* extractor finds in the files that parse.
C4_LoadNeverAborts ==
    /\ pc # "crashed"
    /\ pc \in {"discovered", "done"} /\ Len(followers_paths) > 0 /\ Len(following_paths) > 0 =>
          /\ followers = YieldOf(Range(followers_paths))
          /\ following = YieldOf(Range(following_paths))

----------------------------------------------------------------------------
(* C5 *)

\* C5: no file named following.json (in any case) is among the files loaded
\* as followers, and no file whose name starts with followers (in any case)
\* is among the files loaded as following.
C5_RolesKeptApart ==
    /\ \A p \in Range(followers_paths) \cup loaded.followers : p \notin NamedFollowingJson
    /\ \A p \in Range(following_paths) \cup loaded.following : p \notin NameStartsWithFollowers

C5_Witness ==
    /\ pc = "discovered"
    /\ \E m \in Range(followers_matches) : m[1] \in NamedFollowingJson
    /\ \E m \in Range(following_matches) : m[1] \in NameStartsWithFollowers
    /\ loaded.followers # {}
    /\ loaded.following # {}

----------------------------------------------------------------------------
(* C6 *)

\* C6: a run that finds no file for a role ends with the message of its case:
\* "neither" only when both lists are empty, the followers message when only
\* the followers list is empty, the following message when only the following
\* list is empty.
C6_MessageOfTheEmptyRole ==
    pc = "done" /\ is_dir /\ (FollowersFiles = {} \/ FollowingFiles = {}) =>
        msg = IF FollowersFiles = {} /\ FollowingFiles = {} THEN "neither"
              ELSE IF FollowersFiles = {} THEN "no_followers"
              ELSE "no_following"

----------------------------------------------------------------------------
(* C7 *)

ErrorMessages == {"not_a_directory", "neither", "no_followers", "no_following"}

----------------------------------------------------------------------------
(* C8 *)

ExpectedFollowers == YieldOf(FollowersFiles)
ExpectedFollowing == YieldOf(FollowingFiles)

\* C8: the second run on the same tree with the same format leaves the output
\* files exactly as the first run left them, and the two files a run writes
\* hold what the tree's contents alone determine, whatever the order of the
\* directory walks and whatever the files held before.
C8_SameOutputTwice ==
    /\ run = "second" /\ Ended => out_files = prev_out
    /\ msg = "results" =>
          /\ out_files[path1_of(fmt)] =
                File(file_text(sorted(ExpectedFollowing \ ExpectedFollowers), fmt))
          /\ out_files[path2_of(fmt)] =
                File(file_text(sorted(ExpectedFollowers \ ExpectedFollowing), fmt))
          /\ \A n \in OutNames \ {path1_of(fmt), path2_of(fmt)} : out_files[n] = prev_out[n]

C8_Witness ==
    /\ run = "second"
    /\ msg = "results"
    /\ out_files = prev_out
    /\ Len(followers_paths) = 2
    /\ Len(you_dont_follow_back) > 0
    /\ \E n \in OutNames : out_files[n] = Stale

----------------------------------------------------------------------------
(* C9 *)

PositionIn(list, x) == CHOOSE i \in 1..Len(list) : list[i] = x
ScoreByClaim == [p \in PathIds |-> IF contains(LowerPath[p], kw_boost) THEN 11 ELSE 1]

\* paths is the locator's result for kw less the files excluded by name, each
\* file once, by score descending and, within a score, in the locator's order.
LoadedListIsRight(matches, paths, kw, files) ==
    /\ {m[1] : m \in Range(matches)} = CandidatesOf(kw)
    /\ Len(matches) = Cardinality(CandidatesOf(kw))
    /\ \A m \in Range(matches) : m[2] = ScoreByClaim[m[1]]
    /\ Range(paths) = files
    /\ Len(paths) = Cardinality(files)
    /\ \A i, j \in 1..Len(paths) : i < j =>
          \/ ScoreByClaim[paths[i]] > ScoreByClaim[paths[j]]
          \/ /\ ScoreByClaim[paths[i]] = ScoreByClaim[paths[j]]
             /\ PositionIn(paths_of(matches), paths[i]) < PositionIn(paths_of(matches), paths[j])

\* C9: the score excludes no file: each role's loaded list is the locator's
\* candidates less the name-excluded ones, ordered by score descending with
\* ties in locator order, and the two sets are the unions over those files
\* whatever their scores and order.
C9_ScoreOnlyOrders ==
    Discovered /\ pc # "discover" /\ pc # "start" =>
        /\ LoadedListIsRight(followers_matches, followers_paths, kw_followers, FollowersFiles)
        /\ LoadedListIsRight(following_matches, following_paths, kw_following, FollowingFiles)
        /\ pc # "crashed" /\ FollowersFiles # {} /\ FollowingFiles # {} =>
              /\ followers = YieldOf(FollowersFiles)
              /\ following = YieldOf(FollowingFiles)
              /\ loaded.followers = {p \in FollowersFiles : Parses(p)}
              /\ loaded.following = {p \in FollowingFiles : Parses(p)}

C9_Witness ==
    /\ pc = "discovered"
    /\ Len(followers_matches) = 2
    /\ followers_matches[1][2] < followers_matches[2][2]
    /\ followers_paths = <<followers_matches[2][1], followers_matches[1][1]>>
    /\ Cardinality(loaded.followers) = 2
    /\ following # {}

----------------------------------------------------------------------------
(* C10 *)

====
